---- MODULE Spec2Model ----
(***************************************************************************)
(* Model of the block handlers of the preprocessor                         *)
(* (src/src/preprocessor/blocks.py) and of the command line defines        *)
(* (src/preproc/__main__.py).                                              *)
(*                                                                         *)
(* A Python str is modelled as a sequence of lexemes ("cells"): the begin  *)
(* and end tokens, identifiers, numbers, one whitespace cell " " and text  *)
(* cells.  Offsets are Python offsets (0-based) counted in cells.          *)
(* A raised exception is the field `raised` of the preprocessor: once it   *)
(* is set every later statement of every handler on the call stack is      *)
(* skipped, which is what Python does in code without try/finally.         *)
(***************************************************************************)
EXTENDS Integers, Sequences, FiniteSets, TLC

VARIABLES p, pre, post, op, result, string, steps, phase,
          defines, nested, di, value_cell, dcommands, dexit,
          eunits, estring, eresult, edone

vars == <<p, pre, post, op, result, string, steps, phase,
          defines, nested, di, value_cell, dcommands, dexit,
          eunits, estring, eresult, edone>>

runVars == <<p, pre, post, op, result, string, steps, phase>>
defVars == <<defines, nested, di, value_cell, dcommands, dexit>>
elifVars == <<eunits, estring, eresult, edone>>

\* ------------------------------------------------------------------ bounds
MaxSteps == 3
MaxIfSteps == 2
MaxForSteps == 2
MaxDefines == 2
MaxUnits == 4

\* ------------------------------------------------------------- str helpers
EmptyMap == [x \in {} |-> <<>>]

Min(a, b) == IF a < b THEN a ELSE b
Max(a, b) == IF a > b THEN a ELSE b

\* s[a:b]
Slice(s, a, b) == SubSeq(s, Max(a, 0) + 1, Min(b, Len(s)))

\* s[i]
At(s, i) == s[i + 1]

RECURSIVE Strip(_)
Strip(s) ==
  IF s = <<>> THEN s
  ELSE IF Head(s) = " " THEN Strip(Tail(s))
  ELSE IF s[Len(s)] = " " THEN Strip(SubSeq(s, 1, Len(s) - 1))
  ELSE s

RECURSIVE Times(_, _)
Times(s, n) == IF n <= 0 THEN <<>> ELSE s \o Times(s, n - 1)

\* index of the first non-whitespace cell at or after i (regex \s*)
RECURSIVE SkipWs(_, _)
SkipWs(s, i) == IF i < Len(s) /\ At(s, i) = " " THEN SkipWs(s, i + 1) ELSE i

token_begin == "{%"
token_end == "%}"

BlockNames == {"void", "block", "repeat", "atlabel", "for", "cut", "if"}

\* token_endblock + identifier
EndName(ident) ==
  CASE ident = "void" -> "endvoid"
    [] ident = "block" -> "endblock"
    [] ident = "repeat" -> "endrepeat"
    [] ident = "atlabel" -> "endatlabel"
    [] ident = "for" -> "endfor"
    [] ident = "cut" -> "endcut"
    [] ident = "if" -> "endif"
    [] OTHER -> "end"

Digits == {"0", "1", "2", "3"}
Integers_ == Digits \cup {"-1"}

to_integer(c) ==
  CASE c = "0" -> 0 [] c = "1" -> 1 [] c = "2" -> 2 [] c = "3" -> 3
    [] c = "-1" -> 0 - 1 [] OTHER -> 0

\* str(value) of an int
str(n) ==
  CASE n = 0 -> "0" [] n = 1 -> "1" [] n = 2 -> "2" [] n = 3 -> "3"
    [] n = 0 - 1 -> "-1" [] OTHER -> "?"

Letters == {"a", "b", "c", "t", "x", "y", "z", "L1", "L2", "c1", "c2", "zzz"}

isidentifier(c) == c \in Letters

\* ------------------------------------------------------- Preprocessor object
Msg(m, a) == [msg |-> m, arg |-> a]

send_error(q, m, a) ==
  [q EXCEPT !.raised = TRUE, !.errors = Append(@, Msg(m, a))]

send_warning(q, m, a) == [q EXCEPT !.warnings = Append(@, Msg(m, a))]

context_update(q, pos, desc) ==
  [q EXCEPT !.context = Append(@, [pos |-> pos, desc |-> desc])]

context_pop(q) ==
  [q EXCEPT !.context = SubSeq(@, 1, Len(@) - 1)]

context_top_copy(q, pos, desc) == [pos |-> pos, desc |-> desc,
                                   depth |-> Len(q.context)]

get_label(q, lbl) == IF lbl \in DOMAIN q.labels THEN q.labels[lbl] ELSE <<>>

Ret(q, out) == [p |-> q, out |-> out]

\* --------------------------------------------------------- ordered dict
\* command_vars["atlabel"]: a Python dict, iterated in insertion order
DictHas(d, k) == \E n \in 1..Len(d) : d[n].key = k

DictGet(d, k) == d[CHOOSE n \in 1..Len(d) : d[n].key = k].val

DictSet(d, k, v) ==
  IF DictHas(d, k)
  THEN [n \in 1..Len(d) |-> IF d[n].key = k THEN [key |-> k, val |-> v] ELSE d[n]]
  ELSE Append(d, [key |-> k, val |-> v])

DictDel(d, k) == SelectSeq(d, LAMBDA e : e.key # k)

DictKeys(d) == [n \in 1..Len(d) |-> d[n].key]

\* ------------------------------------------------------------- the tokens
\* Preprocessor._find_tokens: every begin/end token of the string, in order
find_tokens(s) ==
  LET idx == [k \in 1..Len(s) |-> k - 1]
      sel == SelectSeq(idx, LAMBDA k : At(s, k) \in {token_begin, token_end})
  IN [n \in 1..Len(sel) |->
        [begin |-> sel[n], end |-> sel[n] + 1,
         token |-> IF At(s, sel[n]) = token_begin THEN "OPEN" ELSE "CLOSE"]]

\* conditions.find_matching_close_parenthese: index of the ")" closing the
\* "(" at index i of the list, len(list) when there is none
RECURSIVE fmcp_loop(_, _, _)
fmcp_loop(parenthese, j, depth) ==
  IF j >= Len(parenthese) THEN Len(parenthese)
  ELSE IF At(parenthese, j) = "(" THEN fmcp_loop(parenthese, j + 1, depth + 1)
  ELSE IF depth = 0 THEN j
  ELSE fmcp_loop(parenthese, j + 1, depth - 1)

find_matching_close_parenthese(parenthese, i) == fmcp_loop(parenthese, i + 1, 0)

\* index of the end token closing the begin token at cell i, Len(s) if none
RECURSIVE MatchClose_loop(_, _, _)
MatchClose_loop(s, j, depth) ==
  IF j >= Len(s) THEN Len(s)
  ELSE IF At(s, j) = token_begin THEN MatchClose_loop(s, j + 1, depth + 1)
  ELSE IF At(s, j) = token_end
       THEN IF depth = 0 THEN j ELSE MatchClose_loop(s, j + 1, depth - 1)
  ELSE MatchClose_loop(s, j + 1, depth)

MatchClose(s, i) == MatchClose_loop(s, i + 1, 0)

\* the identifier of the directive opened at cell i ("" when there is none)
IdentAt(s, i) ==
  LET k == SkipWs(s, i + 1) IN IF k < Len(s) THEN At(s, k) ELSE ""

\* the begin token of the close directive end<ident> matching a block whose
\* body starts at cell j; -1 when there is none
RECURSIVE find_matching_endblock(_, _, _, _)
find_matching_endblock(s, ident, j, depth) ==
  IF j >= Len(s) THEN 0 - 1
  ELSE IF At(s, j) # token_begin THEN find_matching_endblock(s, ident, j + 1, depth)
  ELSE IF IdentAt(s, j) = ident THEN find_matching_endblock(s, ident, j + 1, depth + 1)
  ELSE IF IdentAt(s, j) = EndName(ident)
       THEN IF depth = 0 THEN j
            ELSE find_matching_endblock(s, ident, j + 1, depth - 1)
  ELSE find_matching_endblock(s, ident, j + 1, depth)

\* ------------------------------------------------- the condition evaluator
NoWs(s) == SelectSeq(s, LAMBDA c : c # " ")

condition_value(q, args) ==
  LET a == NoWs(args) IN
  IF a = <<>> THEN FALSE
  ELSE IF a \in {<<"true">>, <<"1">>} THEN TRUE
  ELSE IF a \in {<<"false">>, <<"0">>} THEN FALSE
  ELSE IF Len(a) = 2 /\ a[1] = "def" THEN a[2] \in DOMAIN q.commands
  ELSE IF Len(a) = 2 /\ a[1] = "ndef" THEN a[2] \notin DOMAIN q.commands
  ELSE TRUE

condition_eval(q, args) ==
  [p |-> [q EXCEPT !.evals = Append(@, args)], value |-> condition_value(q, args)]

\* ------------------------------------------------------ find_elifs_and_else
re_if(s, e) == LET k == SkipWs(s, e) IN k < Len(s) /\ At(s, k) = "if"

\* end offset of a match of \s*<word>\s*<token_end> at s[e:], -1 if no match
re_word_end(s, e, word) ==
  LET k == SkipWs(s, e)
      k2 == SkipWs(s, k + 1)
  IN IF k < Len(s) /\ At(s, k) = word /\ k2 < Len(s) /\ At(s, k2) = token_end
     THEN k2 + 1 ELSE 0 - 1

\* end offset of group 1 of a match of \s*(elif) at s[e:], -1 if no match
re_elif_end1(s, e) ==
  LET k == SkipWs(s, e) IN IF k < Len(s) /\ At(s, k) = "elif" THEN k + 1 ELSE 0 - 1

ElseInfo(q, b, e, arg, isnone) ==
  [p |-> q, begin |-> b, end |-> e, arg |-> arg, isnone |-> isnone]

\* a scan that takes the first elif or else it meets, nested or not
RECURSIVE fe_loop_flat(_, _, _, _, _)
fe_loop_flat(q, s, tokens, i, depth) ==
  IF i >= Len(tokens) THEN ElseInfo(q, 0 - 1, 0 - 1, <<>>, TRUE)
  ELSE
    LET begin == At(tokens, i).begin
        end == At(tokens, i).end
    IN
    IF At(tokens, i).token # "OPEN" THEN fe_loop_flat(q, s, tokens, i + 1, depth)
    ELSE IF re_word_end(s, end, "else") # 0 - 1
    THEN ElseInfo(q, begin, re_word_end(s, end, "else"), <<>>, TRUE)
    ELSE IF re_elif_end1(s, end) # 0 - 1 THEN
      LET parenthese == [n \in 1..Len(tokens) |->
                           IF tokens[n].token = "OPEN" THEN "(" ELSE ")"]
          j == find_matching_close_parenthese(parenthese, i)
      IN IF j = Len(tokens)
         THEN ElseInfo(q, 0 - 1, 0 - 1, <<>>, TRUE)
         ELSE ElseInfo(q, begin, At(tokens, j).end,
                       Slice(s, re_elif_end1(s, end), At(tokens, j).begin),
                       FALSE)
    ELSE fe_loop_flat(q, s, tokens, i + 1, depth)

RECURSIVE fe_loop(_, _, _, _, _)
fe_loop(q, s, tokens, i, depth) ==
  IF i >= Len(tokens) THEN ElseInfo(q, 0 - 1, 0 - 1, <<>>, TRUE)
  ELSE
    LET begin == At(tokens, i).begin
        end == At(tokens, i).end
    IN
    IF At(tokens, i).token # "OPEN" THEN fe_loop(q, s, tokens, i + 1, depth)
    ELSE IF re_if(s, end) THEN fe_loop(q, s, tokens, i + 1, depth + 1)
    ELSE IF re_word_end(s, end, "endif") # 0 - 1
         THEN fe_loop(q, s, tokens, i + 1, depth - 1)
    ELSE IF depth = 0 THEN
      IF re_word_end(s, end, "else") # 0 - 1
      THEN ElseInfo(q, begin, re_word_end(s, end, "else"), <<>>, TRUE)
      ELSE IF re_elif_end1(s, end) # 0 - 1 THEN
        LET parenthese == [n \in 1..Len(tokens) |->
                             IF tokens[n].token = "OPEN" THEN "(" ELSE ")"]
            j == find_matching_close_parenthese(parenthese, i)
        IN IF j = Len(tokens)
           THEN ElseInfo(
                  send_error(
                    context_update(q, begin + q.current_position, "in elif"),
                    "Unmatched token in endif", ""),
                  0 - 1, 0 - 1, <<>>, TRUE)
           ELSE ElseInfo(q, begin, At(tokens, j).end,
                         Slice(s, re_elif_end1(s, end), At(tokens, j).begin),
                         FALSE)
      ELSE fe_loop(q, s, tokens, i + 1, depth)
    ELSE fe_loop(q, s, tokens, i + 1, depth)

find_elifs_and_else(preproc, s) == fe_loop(preproc, s, find_tokens(s), 0, 0)

\* -------------------------------------------------------- the call stack
\* The handlers and Preprocessor.parse call each other.  A call is a frame on
\* `stack`: the function, where it stands (pc) and its local variables; the
\* value a finished call returns is `ret`.  `run` executes until the stack is
\* empty; a raised exception drops every frame, no frame having a handler.
Machine(q, st, r) == [p |-> q, stack |-> st, ret |-> r]

Top(m) == m.stack[Len(m.stack)]

Pop(st) == SubSeq(st, 1, Len(st) - 1)

\* `return v`
Return(m, q, v) == Machine(q, Pop(m.stack), v)

\* the running function goes on as frame f
Goto(m, q, f) == Machine(q, Append(Pop(m.stack), f), m.ret)

ParseFrame(s) == [fn |-> "parse", pc |-> "scan", s |-> s, i |-> 0, out |-> <<>>, next |-> 0]

HandlerFrame(ident, args, contents) ==
  [fn |-> ident, pc |-> "start", args |-> args, contents |-> contents,
   nb |-> 0, lbl |-> <<>>, ident |-> "", iterator |-> <<>>, result |-> <<>>,
   clipboard |-> "", context |-> <<>>, value |-> FALSE, pos_0 |-> 0, desc |-> "",
   else_end |-> 0]

\* `x = p.parse(s)`, the running function going on as frame f when it returns
CallParse(m, q, f, s) ==
  Machine([q EXCEPT !.calls = Append(@, s)],
          Append(Append(Pop(m.stack), f), ParseFrame(s)), m.ret)

\* `context.update(pos, desc); x = parse(contents)`, going on at pc `then`
ParseInContext(m, q, pos, desc, contents, then) ==
  CallParse(m, context_update(q, pos, desc), [Top(m) EXCEPT !.pc = then], contents)

\* ------------------------------------------------------------ the handlers
blck_void(m) ==
  LET f == Top(m) IN
  IF f.pc = "start"
  THEN ParseInContext(m,
         IF Strip(f.args) # <<>>
         THEN send_warning(m.p, "the void block takes no arguments", <<>>)
         ELSE m.p,
         m.p.current_position, "in void block", f.contents, "parsed")
  ELSE Return(m, context_pop(m.p), <<>>)

blck_block(m) ==
  LET f == Top(m) IN
  IF f.pc = "start"
  THEN ParseInContext(m,
         IF Strip(f.args) # <<>>
         THEN send_warning(m.p, "the block block takes no arguments", <<>>)
         ELSE m.p,
         m.p.current_position, "in block block", f.contents, "parsed")
  ELSE Return(m, context_pop(m.p), m.ret)

isnumeric(a) == Len(a) = 1 /\ a[1] \in Digits

\* a repeat that renders its body for every copy, as a for loop does
blck_repeat_each(m) ==
  LET f == Top(m) IN
  IF f.pc = "start" THEN
    IF ~isnumeric(Strip(f.args)) \/ to_integer(Strip(f.args)[1]) <= 0
    THEN Return(m, send_error(m.p, "invalid argument. Usage: repeat [uint > 0]", <<>>), <<>>)
    ELSE ParseInContext(Goto(m, m.p, [f EXCEPT !.nb = to_integer(Strip(f.args)[1]) - 1]),
                        m.p, m.p.current_position, "in block repeat", f.contents, "parsed")
  ELSE IF f.nb > 0
  THEN ParseInContext(Goto(m, m.p, [f EXCEPT !.nb = @ - 1, !.result = @ \o m.ret]),
                      context_pop(m.p), m.p.current_position, "in block repeat",
                      f.contents, "parsed")
  ELSE Return(m, context_pop(m.p), f.result \o m.ret)

blck_repeat(m) ==
  LET f == Top(m)
      args == Strip(f.args)
  IN
  IF f.pc = "start" THEN
    IF ~isnumeric(args)
    THEN Return(m, send_error(m.p, "invalid argument. Usage: repeat [uint > 0]", <<>>), <<>>)
    ELSE IF to_integer(args[1]) <= 0
    THEN Return(m, send_error(m.p, "invalid argument. Usage: repeat [uint > 0]", <<>>), <<>>)
    ELSE ParseInContext(Goto(m, m.p, [f EXCEPT !.nb = to_integer(args[1])]),
                        m.p, m.p.current_position, "in block repeat", f.contents, "parsed")
  ELSE Return(m, context_pop(m.p), Times(m.ret, f.nb))

blck_atlabel(m) ==
  LET f == Top(m)
      lbl == Strip(f.args)
  IN
  IF f.pc = "start" THEN
    IF lbl = <<>> THEN Return(m, send_error(m.p, "empty label name", <<>>), <<>>)
    ELSE IF "atlabel" \in DOMAIN m.p.command_vars
            /\ DictHas(m.p.command_vars["atlabel"], lbl)
    THEN Return(m, send_error(m.p, "Multiple atlabel blocks with same label", lbl), <<>>)
    ELSE ParseInContext(Goto(m, m.p, [f EXCEPT !.lbl = lbl]),
           IF "atlabel" \in DOMAIN m.p.command_vars THEN m.p
           ELSE [m.p EXCEPT !.command_vars = @ @@ ("atlabel" :> <<>>)],
           m.p.current_position, "in block atlabel", f.contents, "parsed")
  ELSE Return(m,
         context_pop([m.p EXCEPT !.command_vars["atlabel"] = DictSet(@, f.lbl, m.ret),
                                 !.atlabel_writes = Append(@, f.lbl)]),
         <<>>)

\* range(start, stop, step) as the list of its values
RECURSIVE range(_, _, _)
range(start, stop, step) ==
  IF (step > 0 /\ start >= stop) \/ (step < 0 /\ start <= stop) THEN <<>>
  ELSE <<start>> \o range(start + step, stop, step)

\* the groups of the range regex on the arguments (whitespace skipped):
\* <<start, stop, step>> with "" for a group that took no part, <<>> for no match
range_groups(a) ==
  IF Len(a) >= 6 /\ a[1] = "range" /\ a[2] = "(" /\ a[3] \in Integers_ /\ a[4] = ","
     /\ a[5] \in Integers_ /\ a[6] = ")"
  THEN <<a[3], a[5], "">>
  ELSE IF Len(a) >= 8 /\ a[1] = "range" /\ a[2] = "(" /\ a[3] \in Integers_
          /\ a[4] = "," /\ a[5] \in Integers_ /\ a[6] = "," /\ a[7] \in Integers_
          /\ a[8] = ")"
  THEN <<a[3], a[5], a[7]>>
  ELSE IF Len(a) >= 4 /\ a[1] = "range" /\ a[2] = "(" /\ a[3] \in Integers_ /\ a[4] = ")"
  THEN <<"", a[3], "">>
  ELSE <<>>

\* the command a for block registers for its identifier
defined_value(pr, args, ident, value) ==
  Ret(IF Strip(args) # <<>>
      THEN send_warning(pr, "Extra arguments. The command defined in for loop takes no arguments", <<ident>>)
      ELSE pr,
      value)

\* a range whose start defaults to 1
for_range_start_one(groups) ==
  LET stop == to_integer(groups[2])
      start == IF groups[1] # "" THEN to_integer(groups[1]) ELSE 1
      step == IF groups[1] # "" /\ groups[3] # "" THEN to_integer(groups[3]) ELSE 1
      values == range(start, stop, step)
  IN [n \in 1..Len(values) |-> str(values[n])]

\* the iterator of a for block over a range, as the strings str(value)
for_range(groups) ==
  LET stop == to_integer(groups[2])
      start == IF groups[1] # "" THEN to_integer(groups[1]) ELSE 0
      step == IF groups[1] # "" /\ groups[3] # "" THEN to_integer(groups[3]) ELSE 1
      values == range(start, stop, step)
  IN [n \in 1..Len(values) |-> str(values[n])]

for_step_is_zero(groups) ==
  groups[1] # "" /\ groups[3] # "" /\ to_integer(groups[3]) = 0

blck_for(m) ==
  LET f == Top(m)
      a == NoWs(f.args)
      rest == SubSeq(a, 3, Len(a))
  IN
  IF f.pc = "start" THEN
    IF ~(Len(a) >= 2 /\ isidentifier(a[1]) /\ a[2] = "in")
    THEN Return(m, send_error(m.p, "Invalid syntax. usage: for <ident> in ...", <<>>), <<>>)
    ELSE IF rest # <<>> /\ rest[1] = "range" THEN
      IF range_groups(rest) = <<>>
      THEN Return(m, send_error(m.p, "Invalid range syntax in for.", <<>>), <<>>)
      ELSE IF for_step_is_zero(range_groups(rest))
      THEN Return(m, send_error(m.p, "ValueError: range() arg 3 must not be zero", <<>>), <<>>)
      ELSE Goto(m, m.p, [f EXCEPT !.pc = "loop", !.ident = a[1],
                                  !.iterator = for_range(range_groups(rest))])
    ELSE Goto(m, m.p, [f EXCEPT !.pc = "loop", !.ident = a[1], !.iterator = rest])
  ELSE IF f.pc = "loop" THEN
    IF f.iterator = <<>> THEN Return(m, m.p, f.result)
    ELSE ParseInContext(m,
           [m.p EXCEPT !.commands =
              [x \in DOMAIN @ \cup {f.ident} |->
                 IF x = f.ident THEN [kind |-> "for", value |-> <<Head(f.iterator)>>]
                 ELSE @[x]]],
           m.p.current_position, "in for block", f.contents, "parsed")
  ELSE Goto(m, context_pop(m.p),
            [f EXCEPT !.pc = "loop", !.iterator = Tail(@), !.result = @ \o m.ret])

\* cut_parser.parse_args: --pre-render/-p is a flag, one optional positional
RECURSIVE cut_parse_args(_, _)
cut_parse_args(split, acc) ==
  IF ~acc.ok \/ split = <<>> THEN acc
  ELSE IF Head(split) \in {"--pre-render", "-p"}
       THEN cut_parse_args(Tail(split), [acc EXCEPT !.pre_render = TRUE])
  ELSE IF Head(split) \in {"-z"} \/ acc.given
       THEN [acc EXCEPT !.ok = FALSE]
  ELSE cut_parse_args(Tail(split),
                      [acc EXCEPT !.clipboard = Head(split), !.given = TRUE])

\* a store that keeps what the clipboard already holds
cut_store_first(q, clipboard, context, contents) ==
  [q EXCEPT !.command_vars =
     IF "clipboard" \notin DOMAIN @
     THEN @ @@ ("clipboard" :> (clipboard :> <<context, contents>>))
     ELSE [@ EXCEPT !["clipboard"] =
             [x \in DOMAIN @ \cup {clipboard} |->
                IF x \in DOMAIN @ THEN @[x] ELSE <<context, contents>>]]]

\* the last statement of blck_cut
cut_store(q, clipboard, context, contents) ==
  [q EXCEPT !.command_vars =
     IF "clipboard" \notin DOMAIN @
     THEN @ @@ ("clipboard" :> (clipboard :> <<context, contents>>))
     ELSE [@ EXCEPT !["clipboard"] =
             [x \in DOMAIN @ \cup {clipboard} |->
                IF x = clipboard THEN <<context, contents>> ELSE @[x]]]]

blck_cut(m) ==
  LET f == Top(m)
      arguments == cut_parse_args(NoWs(f.args),
                     [ok |-> TRUE, pre_render |-> FALSE, clipboard |-> "", given |-> FALSE])
      pos == m.p.current_position
      context == context_top_copy(m.p, pos, "in pasted block")
  IN
  IF f.pc = "start" THEN
    IF ~arguments.ok
    THEN Return(m, send_error(m.p, "invalid argument. usage: cut [--pre-render|-p] [<clipboard_name>]", <<>>), <<>>)
    ELSE IF arguments.pre_render
    THEN ParseInContext(
           Goto(m, m.p, [f EXCEPT !.clipboard = arguments.clipboard, !.context = context]),
           m.p, pos, "in cut block", f.contents, "parsed")
    ELSE Return(m, cut_store(m.p, arguments.clipboard, context, f.contents), <<>>)
  ELSE Return(m, cut_store(context_pop(m.p), f.clipboard, f.context, m.ret), <<>>)

\* an if block that evaluates the arguments of an elif as they are written
blck_if_raw_elif(m) ==
  LET f == Top(m)
      else_info == find_elifs_and_else(m.p, Slice(f.contents, f.pos_0, Len(f.contents)))
      qe == else_info.p
  IN
  IF f.pc = "start" THEN
    Goto(m, condition_eval(m.p, f.args).p,
         [f EXCEPT !.pc = "loop", !.value = condition_eval(m.p, f.args).value,
                   !.pos_0 = 0, !.desc = "in if block"])
  ELSE IF f.pc = "loop" THEN
    IF qe.raised THEN Return(m, qe, <<>>)
    ELSE IF f.value
    THEN ParseInContext(m, qe, f.pos_0 + qe.current_position, f.desc,
           Slice(f.contents, f.pos_0,
                 IF else_info.begin # 0 - 1 THEN f.pos_0 + else_info.begin
                 ELSE Len(f.contents)),
           "body")
    ELSE IF else_info.begin = 0 - 1 THEN Return(m, qe, <<>>)
    ELSE IF else_info.isnone
    THEN Goto(m, qe, [f EXCEPT !.value = ~f.value, !.desc = "in else",
                               !.pos_0 = @ + else_info.end])
    ELSE Goto(m, condition_eval(qe, else_info.arg).p,
              [f EXCEPT !.value = condition_eval(qe, else_info.arg).value,
                        !.desc = "in elif", !.pos_0 = @ + else_info.end])
  ELSE Return(m, context_pop(m.p), m.ret)

blck_if(m) ==
  LET f == Top(m)
      else_info == find_elifs_and_else(m.p, Slice(f.contents, f.pos_0, Len(f.contents)))
      qe == else_info.p
  IN
  IF f.pc = "start" THEN
    Goto(m, condition_eval(m.p, f.args).p,
         [f EXCEPT !.pc = "loop", !.value = condition_eval(m.p, f.args).value,
                   !.pos_0 = 0, !.desc = "in if block"])
  ELSE IF f.pc = "loop" THEN
    IF qe.raised THEN Return(m, qe, <<>>)
    ELSE IF f.value
    THEN ParseInContext(m, qe, f.pos_0 + qe.current_position, f.desc,
           Slice(f.contents, f.pos_0,
                 IF else_info.begin # 0 - 1 THEN f.pos_0 + else_info.begin
                 ELSE Len(f.contents)),
           "body")
    ELSE IF else_info.begin = 0 - 1 THEN Return(m, qe, <<>>)
    ELSE IF else_info.isnone
    THEN Goto(m, qe, [f EXCEPT !.value = ~f.value, !.desc = "in else",
                               !.pos_0 = @ + else_info.end])
    ELSE ParseInContext(Goto(m, qe, [f EXCEPT !.else_end = else_info.end]),
           qe, f.pos_0 + else_info.begin + qe.current_position,
           "in elif evaluation", else_info.arg, "elif")
  ELSE IF f.pc = "elif" THEN
    Goto(m, condition_eval(context_pop(m.p), m.ret).p,
         [f EXCEPT !.pc = "loop", !.value = condition_eval(context_pop(m.p), m.ret).value,
                   !.desc = "in elif", !.pos_0 = @ + f.else_end])
  ELSE Return(m, context_pop(m.p), m.ret)

call_command(q, ident, args) ==
  IF q.commands[ident].kind = "for"
  THEN defined_value(q, args, ident, q.commands[ident].value)
  ELSE Ret(q, q.commands[ident].value)

\* Preprocessor.parse: text is copied, every directive is replaced by what
\* its command or block handler returns; a frame of the context stack lies
\* around every handler, popped when the handler returns and when it raises
parse_directive(m, f, k, j) ==
  LET s == f.s
      ident == At(s, k)
      args == Slice(s, k + 1, j)
      e == find_matching_endblock(s, ident, j + 1, 0)
  IN
  IF ident \in BlockNames THEN
    IF e = 0 - 1
    THEN Goto(m, send_error(m.p, "No matching endblock", <<ident>>), f)
    ELSE Machine(context_update([m.p EXCEPT !.current_position = j + 1], j + 1, ident),
                 Append(Append(Pop(m.stack),
                               [f EXCEPT !.pc = "called", !.next = MatchClose(s, e) + 1]),
                        HandlerFrame(ident, args, Slice(s, j + 1, e))),
                 m.ret)
  ELSE IF ident \in DOMAIN m.p.commands THEN
    Goto(m, call_command([m.p EXCEPT !.current_position = j + 1], ident, args).p,
         [f EXCEPT !.i = j + 1,
                   !.out = @ \o call_command(m.p, ident, args).out])
  ELSE Goto(m, send_error(m.p, "Unknown command or block", <<ident>>), f)

parse_step(m) ==
  LET f == Top(m)
      s == f.s
      i == f.i
  IN
  IF f.pc = "called"
  THEN Goto(m, context_pop(m.p), [f EXCEPT !.pc = "scan", !.i = f.next, !.out = @ \o m.ret])
  ELSE IF i >= Len(s) THEN Return(m, m.p, f.out)
  ELSE IF At(s, i) = token_end
  THEN Goto(m, send_error(m.p, "Unmatched end token", <<>>), f)
  ELSE IF At(s, i) # token_begin
  THEN Goto(m, m.p, [f EXCEPT !.i = i + 1, !.out = Append(@, At(s, i))])
  ELSE IF MatchClose(s, i) = Len(s) \/ SkipWs(s, i + 1) >= MatchClose(s, i)
  THEN Goto(m, send_error(m.p, "Unmatched begin token", <<>>), f)
  ELSE parse_directive(m, f, SkipWs(s, i + 1), MatchClose(s, i))

\* an exception leaves the running function: no handler has a try block
unwind(m) ==
  Machine(IF Top(m).fn = "parse" /\ Top(m).pc = "called" THEN context_pop(m.p) ELSE m.p,
          Pop(m.stack), <<>>)

\* the block table of the preprocessor
call_block(m) ==
  CASE Top(m).fn = "void" -> blck_void(m)
    [] Top(m).fn = "block" -> blck_block(m)
    [] Top(m).fn = "repeat" -> blck_repeat(m)
    [] Top(m).fn = "atlabel" -> blck_atlabel(m)
    [] Top(m).fn = "for" -> blck_for(m)
    [] Top(m).fn = "cut" -> blck_cut(m)
    [] Top(m).fn = "if" -> blck_if(m)

machine_step(m) ==
  IF m.p.raised THEN unwind(m)
  ELSE IF Top(m).fn = "parse" THEN parse_step(m)
  ELSE call_block(m)

RECURSIVE run(_)
run(m) == IF m.stack = <<>> THEN m ELSE run(machine_step(m))

returned(m) == Ret(m.p, m.ret)

parse(q, s) ==
  returned(run(Machine([q EXCEPT !.calls = Append(@, s)], <<ParseFrame(s)>>, <<>>)))

\* what the top-level parse holds when the handler it called has run: the
\* preprocessor at the call (entry) and at the handler's exit, the value
\* returned, and the preprocessor once the frame of the call is popped
called(q1, m) == [p |-> context_pop(m.p), out |-> m.ret, entry |-> q1, exit |-> m.p]

run_handler(q1, ident, args, contents) ==
  called(q1, run(Machine(q1, <<HandlerFrame(ident, args, contents)>>, <<>>)))

\* the top-level parse calls the handler of a block at offset pos
call_in_frame(q, pos, ident, args, contents) ==
  run_handler(context_update([q EXCEPT !.current_position = pos], pos, ident),
              ident, args, contents)

\* ------------------------------------------------------------ finalization
\* Preprocessor.replace_string(start, end, string, replacement, []): the
\* replacement takes the place of string[start:end]; the recorded label
\* offsets at or after the replaced range move with the text
replace_string(q, start, end, s, replacement) ==
  Ret([q EXCEPT !.labels =
         [l \in DOMAIN @ |->
            [n \in 1..Len(@[l]) |->
               IF @[l][n] >= end THEN @[l][n] + Len(replacement) - (end - start)
               ELSE @[l][n]]]],
      Slice(s, 0, start) \o replacement \o Slice(s, end, Len(s)))

RECURSIVE fnl_insert(_, _, _, _, _)
fnl_insert(q, s, lbl, i, nb_labels) ==
  IF i >= nb_labels THEN Ret(q, s)
  ELSE LET index == At(get_label(q, lbl), i)
           r == replace_string(q, index, index, s,
                               DictGet(q.command_vars["atlabel"], lbl))
       IN fnl_insert(r.p, r.out, lbl, i + 1, nb_labels)

\* a pass that also warns for a label recorded once
RECURSIVE fnl_each_warn_one(_, _, _)
fnl_each_warn_one(q, s, lbls) ==
  IF lbls = <<>> THEN Ret(q, s)
  ELSE LET lbl == Head(lbls)
           nb_labels == Len(get_label(q, lbl))
           q1 == IF nb_labels <= 1
                 THEN send_warning(q, "No matching label for atlabel block", lbl)
                 ELSE q
           r == fnl_insert(q1, s, lbl, 0, nb_labels)
       IN fnl_each_warn_one(r.p, r.out, Tail(lbls))

RECURSIVE fnl_each(_, _, _)
fnl_each(q, s, lbls) ==
  IF lbls = <<>> THEN Ret(q, s)
  ELSE LET lbl == Head(lbls)
           nb_labels == Len(get_label(q, lbl))
           q1 == IF nb_labels = 0
                 THEN send_warning(q, "No matching label for atlabel block", lbl)
                 ELSE q
           r == fnl_insert(q1, s, lbl, 0, nb_labels)
       IN fnl_each(r.p, r.out, Tail(lbls))

\* a pass that leaves the entries in the store
fnl_delete_none(d, deletions) == d

RECURSIVE fnl_delete(_, _)
fnl_delete(d, deletions) ==
  IF deletions = <<>> THEN d
  ELSE fnl_delete(DictDel(d, Head(deletions)), Tail(deletions))

fnl_atlabel(q, s) ==
  IF "atlabel" \in DOMAIN q.command_vars THEN
    LET deletions == DictKeys(q.command_vars["atlabel"])
        r == fnl_each(q, s, deletions)
    IN Ret([r.p EXCEPT !.command_vars["atlabel"] = fnl_delete(@, deletions)], r.out)
  ELSE Ret(q, s)

\* the label command: records the offset of the output it is written at
cmd_label(q, lbl, offset) ==
  [q EXCEPT !.labels =
     [l \in DOMAIN @ \cup {lbl} |->
        IF l \in DOMAIN @
        THEN (IF l = lbl THEN Append(@[l], offset) ELSE @[l])
        ELSE <<offset>>]]

\* ----------------------------------------------------------- the documents
Dir(ident, args) == <<token_begin, ident>> \o args \o <<token_end>>

Blk(ident, args, body) == Dir(ident, args) \o body \o Dir(EndName(ident), <<>>)

In(args, contents) == [args |-> args, contents |-> contents, chain |-> <<>>]

Ba == <<"a">>
Bbad == Dir("zzz", <<>>)
Bcut == <<"a">> \o Blk("cut", <<" ", "c1">>, <<"b">>)
Batl == Blk("atlabel", <<" ", "L1">>, <<"b">>) \o <<"c">>
Bx == Dir("x", <<>>) \o <<",">>

VoidInputs ==
  {In(<<>>, Ba), In(<<>>, Bbad), In(<<>>, Batl), In(<<" ", "x">>, Bcut)}

BlockInputs == {In(<<>>, Ba), In(<<>>, Bbad), In(<<" ", "x">>, Bcut)}

RepeatInputs ==
  {In(<<" ", "2">>, Bcut), In(<<" ", "3", " ">>, Ba), In(<<" ", "1">>, Bbad),
   In(<<" ", "0">>, Bcut), In(<<" ", "-1">>, Bcut), In(<<" ", "x">>, Bcut),
   In(<<>>, Ba)}

AtlabelInputs ==
  {In(<<" ", "L1">>, Ba), In(<<" ", "L1", " ">>, Batl), In(<<" ", "L2">>, <<"b">>),
   In(<<" ", "L2">>, Batl), In(<<" ">>, Ba), In(<<" ", "L1">>, Bbad)}

ForInputs ==
  {In(<<" ", "x", " ", "in", " ", "range", "(", "2", ")">>, Bx),
   In(<<" ", "x", " ", "in", " ", "a", " ", "b">>, Bbad),
   In(<<" ", "x", " ", "of", " ", "a">>, Bx)}

\* a cut block, with the clipboard and the flag its arguments are written for
CutIn(args, contents, clipboard, pre_render) ==
  [args |-> args, contents |-> contents,
   chain |-> <<[clipboard |-> clipboard, pre_render |-> pre_render]>>]

CutInputs ==
  {CutIn(<<>>, Ba, "", FALSE), CutIn(<<" ", "c1">>, Bx, "c1", FALSE),
   CutIn(<<" ", "c1", " ">>, Ba, "c1", FALSE),
   CutIn(<<" ", "-p", " ", "c1">>, Bcut, "c1", TRUE),
   CutIn(<<" ", "--pre-render">>, Bbad, "", TRUE),
   CutIn(<<" ", "c2", " ", "-p">>, <<"b">> \o Dir("t", <<>>), "c2", TRUE),
   In(<<" ", "c1", " ", "c2">>, Ba), In(<<" ", "-z">>, Ba)}

IfInputs ==
  {In(<<" ", "1">>, Ba), In(<<" ", "0">>, <<"a">> \o Dir("else", <<>>) \o <<"b">>),
   In(<<" ", "1">>, Bbad), In(<<" ", "0">>, <<"a", token_begin, "elif", " ", "1">>),
   In(<<" ", "0">>, <<"a">> \o Dir("elif", <<" ">> \o Bbad) \o <<"b">>)}

LabelNames == {<<"L1">>, <<"L2">>}

\* ------------------------------------------------------------------- a run
\* Preprocessor() after process_options (with `-d t`) and context.new(file, 0)
NewPreprocessor ==
  [context |-> <<[pos |-> 0, desc |-> "file"]>>,
   command_vars |-> EmptyMap,
   commands |-> ("t" :> [kind |-> "define", value |-> <<>>]),
   labels |-> EmptyMap,
   warnings |-> <<>>,
   errors |-> <<>>,
   raised |-> FALSE,
   current_position |-> 0,
   calls |-> <<>>,
   evals |-> <<>>,
   atlabel_writes |-> <<>>]

NoOp == [name |-> "init", args |-> <<>>, contents |-> <<>>, chain |-> <<>>]

InitRun ==
  /\ p = NewPreprocessor
  /\ pre = NewPreprocessor
  /\ post = NewPreprocessor
  /\ op = NoOp
  /\ result = <<>>
  /\ string = <<>>
  /\ steps = 0
  /\ phase = "run"

InitDefinesIdle ==
  /\ defines = <<>>
  /\ nested = FALSE
  /\ di = 0
  /\ value_cell = <<>>
  /\ dcommands = EmptyMap
  /\ dexit = FALSE

InitElifIdle ==
  /\ eunits = <<>>
  /\ estring = <<>>
  /\ eresult = ElseInfo(NewPreprocessor, 0 - 1, 0 - 1, <<>>, TRUE)
  /\ edone = FALSE

Init == InitRun /\ InitDefinesIdle /\ InitElifIdle

\* the top-level parse may go on to its next directive
CanCall(bound) ==
  /\ phase = "run"
  /\ steps < bound
  /\ ~p.raised

\* the top-level parse goes on with what the handler returned
Returned(r, ident, inp) ==
  /\ p' = r.p
  /\ pre' = r.entry
  /\ post' = r.exit
  /\ result' = r.out
  /\ string' = IF r.p.raised THEN string ELSE string \o r.out
  /\ op' = [name |-> ident, args |-> inp.args, contents |-> inp.contents,
            chain |-> inp.chain]
  /\ steps' = steps + 1
  /\ phase' = phase
  /\ UNCHANGED <<defVars, elifVars>>

\* the top-level parse reaches a block and calls its handler
CallBlock(ident, inp) ==
  Returned(call_in_frame(p, steps, ident, inp.args, inp.contents), ident, inp)

Void ==
  /\ CanCall(MaxSteps)
  /\ \E inp \in VoidInputs : CallBlock("void", inp)

Block ==
  /\ CanCall(MaxSteps)
  /\ \E inp \in BlockInputs : CallBlock("block", inp)

Repeat ==
  /\ CanCall(MaxSteps)
  /\ \E inp \in RepeatInputs : CallBlock("repeat", inp)

Atlabel ==
  /\ CanCall(MaxSteps)
  /\ \E inp \in AtlabelInputs : CallBlock("atlabel", inp)

For ==
  /\ CanCall(MaxSteps)
  /\ \E inp \in ForInputs : CallBlock("for", inp)

Cut ==
  /\ CanCall(MaxSteps)
  /\ \E inp \in CutInputs : CallBlock("cut", inp)

If ==
  /\ CanCall(MaxSteps)
  /\ \E inp \in IfInputs : CallBlock("if", inp)

Label ==
  /\ CanCall(MaxSteps)
  /\ \E lbl \in LabelNames :
       /\ p' = cmd_label(p, lbl, Len(string))
       /\ op' = [name |-> "label", args |-> lbl, contents |-> <<>>, chain |-> <<>>]
       /\ post' = cmd_label(p, lbl, Len(string))
  /\ pre' = p
  /\ result' = <<>>
  /\ steps' = steps + 1
  /\ UNCHANGED <<string, phase, defVars, elifVars>>

\* the finalization pass, once the top-level parse has returned (and a
\* second time on its own output)
Finalize ==
  /\ phase \in {"run", "final"}
  /\ ~p.raised
  /\ LET r == fnl_atlabel(p, string)
     IN /\ p' = r.p
        /\ post' = r.p
        /\ string' = r.out
        /\ result' = r.out
  /\ pre' = p
  /\ op' = [name |-> "fnl_atlabel", args |-> <<>>, contents |-> string, chain |-> <<>>]
  /\ phase' = IF phase = "run" THEN "final" ELSE "final2"
  /\ UNCHANGED <<steps, defVars, elifVars>>

Next == Void \/ Block \/ Repeat \/ Atlabel \/ For \/ Cut \/ If \/ Label \/ Finalize

Spec == Init /\ [][Next]_vars

\* ---------------------------------------------------- if chains, for loops
\* an if block written from its branches: chain[1] is the if itself
RECURSIVE RenderBranches(_, _)
RenderBranches(chain, k) ==
  IF k > Len(chain) THEN <<>>
  ELSE Dir(chain[k].kind, chain[k].cond) \o chain[k].body \o RenderBranches(chain, k + 1)

IfIn(chain) ==
  [args |-> chain[1].cond, contents |-> chain[1].body \o RenderBranches(chain, 2),
   chain |-> chain]

Branch(kind, cond, body) == [kind |-> kind, cond |-> cond, body |-> body]

NestedIf ==
  <<"x">> \o Blk("if", <<" ", "0">>,
                 <<"y">> \o Dir("elif", <<" ", "1">>) \o <<"z">>
                   \o Dir("else", <<>>) \o <<"w">>)

IfHeads ==
  {<<Branch("if", c, b)>> : c \in {<<" ", "1">>, <<" ", "0">>}, b \in {<<"a">>, NestedIf}}

Elif1s ==
  {Branch("elif", c, <<"b">>) :
     c \in {<<" ", "1">>, <<" ", "0">>, <<" ">> \o Dir("t", <<>>)}}

Elif2s == {Branch("elif", c, <<"c">>) : c \in {<<" ", "true">>, <<" ", "false">>}}

Else == Branch("else", <<>>, <<"d">> \o NestedIf)

IfTails ==
  {<<>>, <<Else>>}
    \cup {<<e>> : e \in Elif1s}
    \cup {<<e, Else>> : e \in Elif1s}
    \cup {<<e, f>> : e \in Elif1s, f \in Elif2s}

IfChains == {IfIn(h \o t) : h \in IfHeads, t \in IfTails}

\* a for block, with the identifier and the values its arguments are written for
ForIn(ident, iter, body, vals) ==
  [args |-> <<" ", ident, " ", "in", " ">> \o iter, contents |-> body,
   chain |-> <<[ident |-> ident, vals |-> vals]>>]

\* the values of range(start, stop, step): start + k * step, for every k >= 0
\* that keeps it on the near side of stop
RangeValues(start, stop, step) ==
  LET ks == {k \in 0..4 : IF step > 0 THEN start + k * step < stop
                          ELSE start + k * step > stop}
  IN [n \in 1..Cardinality(ks) |-> str(start + (n - 1) * step)]

Range1 == {"0", "2", "3", "-1"}
Range2 == {<<"1", "3">>, <<"2", "2">>, <<"-1", "1">>}
Range3 == {<<"0", "3", "2">>, <<"3", "0", "-1">>, <<"1", "3", "1">>, <<"1", "2", "-1">>}

ForBodies(ident) == {Dir(ident, <<>>) \o <<",">>}

ForRich ==
  UNION {
    {ForIn(i, <<"range", "(", a, ")">>, b, RangeValues(0, to_integer(a), 1)) :
       a \in Range1, b \in ForBodies(i)}
    \cup
    {ForIn(i, <<"range", "(", " ", a[1], ",", " ", a[2], " ", ")">>, b,
           RangeValues(to_integer(a[1]), to_integer(a[2]), 1)) :
       a \in Range2, b \in ForBodies(i)}
    \cup
    {ForIn(i, <<"range", "(", a[1], ",", a[2], ",", a[3], ")">>, b,
           RangeValues(to_integer(a[1]), to_integer(a[2]), to_integer(a[3]))) :
       a \in Range3, b \in ForBodies(i)}
    \cup
    {ForIn(i, <<"a", " ", "b">>, b, <<"a", "b">>) : b \in ForBodies(i)}
    \cup
    {ForIn(i, <<"2">>, <<"b">> \o Blk("for", <<" ", "y", " ", "in", " ", "c">>, <<"a">>),
           <<"2">>)}
  : i \in {"x", "t"}}

IfChain ==
  /\ CanCall(MaxIfSteps)
  /\ \E inp \in IfChains : CallBlock("if", inp)

ForRange ==
  /\ CanCall(MaxForSteps)
  /\ \E inp \in ForRich : CallBlock("for", inp)

NextIf == IfChain

SpecIf == Init /\ [][NextIf]_vars

NextFor == ForRange

SpecFor == Init /\ [][NextFor]_vars

\* ------------------------------------------------ the bodies of if blocks
\* a body as the pieces it is written from: text, the directives of nested if
\* blocks, and the elif and else directives
Unit(kind, cond) == [kind |-> kind, cond |-> cond, text |-> Dir(kind, cond)]

Units ==
  {Unit("if", <<" ", "1">>), Unit("endif", <<>>), Unit("else", <<>>),
   Unit("elif", <<" ", "0">>), Unit("elif", <<" ">> \o Dir("t", <<>>)),
   [kind |-> "text", cond |-> <<>>, text |-> <<"a">>]}

\* the nesting depth in front of piece k
DepthBefore(us, k) ==
  Cardinality({n \in 1..(k - 1) : us[n].kind = "if"})
    - Cardinality({n \in 1..(k - 1) : us[n].kind = "endif"})

\* what find_matching_endblock hands to blck_if: every nested if is closed, no
\* endif comes without its if
WellNested(us) ==
  /\ \A k \in 1..Len(us) : DepthBefore(us, k + 1) >= 0
  /\ DepthBefore(us, Len(us) + 1) = 0

RECURSIVE Render(_)
Render(us) == IF us = <<>> THEN <<>> ELSE Head(us).text \o Render(Tail(us))

IfBodies ==
  {us \in UNION {[1..n -> Units] : n \in 0..MaxUnits} : WellNested(us)}

InitElif ==
  /\ InitRun
  /\ InitDefinesIdle
  /\ eunits \in IfBodies
  /\ estring = Render(eunits)
  /\ eresult = ElseInfo(NewPreprocessor, 0 - 1, 0 - 1, <<>>, TRUE)
  /\ edone = FALSE

\* blck_if asks for the next elif or else of the body
FindElifs ==
  /\ ~edone
  /\ eresult' = find_elifs_and_else(NewPreprocessor, estring)
  /\ edone' = TRUE
  /\ UNCHANGED <<eunits, estring, runVars, defVars>>

NextElif == FindElifs

SpecElif == InitElif /\ [][NextElif]_vars

\* ------------------------------------------------- the command line defines
\* str.find("="): the index of the first "=", -1 when there is none
RECURSIVE find_eq(_, _)
find_eq(define, i) ==
  IF i >= Len(define) THEN 0 - 1
  ELSE IF At(define, i) = "=" THEN i
  ELSE find_eq(define, i + 1)

\* str.isidentifier on a string of characters
IdentChars == {"a", "b"}

name_isidentifier(name) ==
  /\ name # <<>>
  /\ name[1] \in IdentChars
  /\ \A n \in 1..Len(name) : name[n] \in IdentChars \cup Digits

\* define[0]: the string inside a one-element list, the first character of a
\* string
getitem_0(define, is_list) == IF is_list THEN define ELSE Slice(define, 0, 1)

\* the name and the value one iteration of process_defines reads
define_split(define) ==
  IF find_eq(define, 0) = 0 - 1
  THEN [name |-> define, value |-> <<>>]
  ELSE [name |-> Slice(define, 0, find_eq(define, 0)),
        value |-> Slice(define, find_eq(define, 0) + 1, Len(define))]

\* the lambda of process_defines: it reads the variable `value` of the
\* function when it is called
Closure == [kind |-> "lambda", reads |-> "value"]

call_define(commands, cell, name) ==
  IF commands[name].reads = "value" THEN cell ELSE <<>>

DefineTexts ==
  {<<"a">>, <<"a", "=", "1">>, <<"a", "b", "=", "2">>, <<"b", "=", "2">>,
   <<"b", "=">>, <<"b", "1", "=", "1", "=", "2">>, <<"=", "1">>}

\* the lists of defines: no name is given twice
DefineLists ==
  {ds \in UNION {[1..n -> DefineTexts] : n \in 0..MaxDefines} :
     \A m, n \in 1..Len(ds) :
       m # n => define_split(ds[m]).name # define_split(ds[n]).name}

InitDefines ==
  /\ InitRun
  /\ InitElifIdle
  /\ defines \in DefineLists
  /\ nested \in BOOLEAN
  /\ di = 0
  /\ value_cell = <<>>
  /\ dcommands = EmptyMap
  /\ dexit = FALSE

\* the variables one iteration of the loop leaves set, for the define it read
define_iteration(d, commands) ==
  IF ~name_isidentifier(d.name)
  THEN [commands |-> commands, value |-> d.value, exit |-> TRUE, i |-> 0]
  ELSE [commands |-> [x \in DOMAIN commands \cup {d.name} |->
                        IF x = d.name THEN Closure ELSE commands[x]],
        value |-> d.value, exit |-> FALSE, i |-> 1]

DefineLoop(r) ==
  /\ dcommands' = r.commands
  /\ value_cell' = r.value
  /\ dexit' = r.exit
  /\ di' = di + r.i

\* one iteration of the loop of process_defines
ProcessDefine ==
  /\ di < Len(defines)
  /\ ~dexit
  /\ DefineLoop(define_iteration(define_split(getitem_0(defines[di + 1], nested)),
                                 dcommands))
  /\ UNCHANGED <<defines, nested, runVars, elifVars>>

NextDefines == ProcessDefine

SpecDefines == InitDefines /\ [][NextDefines]_vars

\* ------------------------------------------------------------------ claims
NewCalls == SubSeq(post.calls, Len(pre.calls) + 1, Len(post.calls))
NewEvals == SubSeq(post.evals, Len(pre.evals) + 1, Len(post.evals))
NewWarnings == SubSeq(post.warnings, Len(pre.warnings) + 1, Len(post.warnings))

Count(seq, x) == Cardinality({n \in 1..Len(seq) : seq[n] = x})

\* C1: every block handler leaves the context stack as deep as it found it,
\* on every exit path, the raising ones included
C1_ContextBalanced ==
  op.name \in BlockNames => Len(post.context) = Len(pre.context)

\* the part of C1 that the handlers do keep: the stack is balanced whenever
\* the handler returns
C1_BalancedOnReturn ==
  (op.name \in BlockNames /\ ~post.raised) => post.context = pre.context

\* C2: before finalization no label is stored twice by atlabel blocks: the
\* second block with the label is a fatal error, whatever the nesting
C2_AtlabelWrittenOnce ==
  phase = "run" =>
    \A n \in 1..Len(p.atlabel_writes) : Count(p.atlabel_writes, p.atlabel_writes[n]) = 1

\* the part of C2 that holds: an atlabel block that starts when its label is
\* already stored raises and leaves the stored content alone
C2_SequentialDuplicateFatal ==
  (op.name = "atlabel" /\ "atlabel" \in DOMAIN pre.command_vars
     /\ DictHas(pre.command_vars["atlabel"], Strip(op.args)))
  => (post.raised /\ post.command_vars = pre.command_vars)

PositiveInt(a) == a \in {<<"1">>, <<"2">>, <<"3">>}

\* C4: repeat n with n a positive integer parses the body once and returns n
\* copies of that one result; any other argument is a fatal error and the
\* body is not parsed
C4_Repeat ==
  op.name = "repeat" =>
    IF PositiveInt(Strip(op.args))
    THEN LET once == parse(context_update(pre, pre.current_position, "in block repeat"),
                           op.contents)
         IN /\ post.calls = once.p.calls
            /\ post.command_vars = once.p.command_vars
            /\ post.raised = once.p.raised
            /\ ~post.raised => result = Times(once.out, to_integer(Strip(op.args)[1]))
    ELSE post.raised /\ post.calls = pre.calls /\ Len(post.errors) = 1

C4_Witness ==
  /\ op.name = "repeat" /\ Strip(op.args) = <<"2">> /\ ~post.raised
  /\ result = <<"a", "a">> /\ Count(NewCalls, op.contents) = 1
  /\ "clipboard" \in DOMAIN post.command_vars

\* C6: a cut stores (context, content) under its clipboard name, replacing
\* what the name held, leaves the other names alone and returns "": the
\* content is the raw body, or with --pre-render the body parsed once
C6_Cut ==
  (op.name = "cut" /\ op.chain # <<>> /\ ~post.raised) =>
    LET d == op.chain[1]
        once == IF d.pre_render
                THEN parse(context_update(pre, pre.current_position, "in cut block"),
                           op.contents)
                ELSE Ret(pre, op.contents)
        before == IF "clipboard" \in DOMAIN once.p.command_vars
                  THEN once.p.command_vars["clipboard"] ELSE EmptyMap
        after == post.command_vars["clipboard"]
    IN /\ result = <<>>
       /\ after[d.clipboard] =
            <<context_top_copy(pre, pre.current_position, "in pasted block"), once.out>>
       /\ DOMAIN after = DOMAIN before \cup {d.clipboard}
       /\ \A n \in DOMAIN before \ {d.clipboard} : after[n] = before[n]
       /\ post.calls = once.p.calls
       /\ ~d.pre_render => (once.out = op.contents /\ post.calls = pre.calls)

C6_Witness ==
  /\ op.name = "cut" /\ op.chain # <<>> /\ ~post.raised
  /\ "clipboard" \in DOMAIN pre.command_vars
  /\ "c1" \in DOMAIN pre.command_vars["clipboard"]
  /\ "c2" \in DOMAIN pre.command_vars["clipboard"]
  /\ op.chain[1].clipboard = "c1"
  /\ post.command_vars["clipboard"]["c1"] # pre.command_vars["clipboard"]["c1"]
  /\ post.command_vars["clipboard"]["c2"] = pre.command_vars["clipboard"]["c2"]

\* C7: fnl_atlabel empties the atlabel store, so a second run on the output
\* of the first changes nothing: same string, nothing inserted, no warning
C7_FinalizeIdempotent ==
  /\ (phase \in {"final", "final2"} /\ "atlabel" \in DOMAIN p.command_vars)
       => p.command_vars["atlabel"] = <<>>
  /\ phase = "final2" => (string = op.contents /\ p = pre)

C7_Witness ==
  /\ phase = "final2"
  /\ \E n \in 1..Len(p.atlabel_writes) :
       /\ get_label(p, p.atlabel_writes[n]) # <<>>
  /\ Len(p.warnings) > 0
  /\ string # <<>>

ZeroLabels(q) ==
  IF "atlabel" \in DOMAIN q.command_vars
  THEN SelectSeq(DictKeys(q.command_vars["atlabel"]),
                 LAMBDA l : l \notin DOMAIN q.labels)
  ELSE <<>>

WithoutZeroLabels(q) ==
  IF "atlabel" \in DOMAIN q.command_vars
  THEN [q EXCEPT !.command_vars["atlabel"] =
          SelectSeq(@, LAMBDA e : e.key \in DOMAIN q.labels)]
  ELSE q

\* C8: fnl_atlabel sends one "No matching label" warning for each entry whose
\* label was never recorded (and for no other entry), raises nothing, and
\* such an entry adds nothing to the string
C8_NoMatchingLabel ==
  op.name = "fnl_atlabel" =>
    /\ ~post.raised
    /\ NewWarnings = [n \in 1..Len(ZeroLabels(pre)) |->
                        Msg("No matching label for atlabel block", ZeroLabels(pre)[n])]
    /\ string = fnl_atlabel(WithoutZeroLabels(pre), op.contents).out
    /\ ("atlabel" \in DOMAIN pre.command_vars
          /\ ZeroLabels(pre) = DictKeys(pre.command_vars["atlabel"]))
       => string = op.contents

C8_Witness ==
  /\ op.name = "fnl_atlabel"
  /\ phase = "final"
  /\ Len(ZeroLabels(pre)) = 1
  /\ Len(NewWarnings) = 1
  /\ Len(pre.command_vars["atlabel"]) = 2
  /\ string # op.contents

Upto(n) == [k \in 1..n |-> k]

RECURSIVE Flatten(_)
Flatten(ss) == IF ss = <<>> THEN <<>> ELSE Head(ss) \o Flatten(Tail(ss))

\* the text a branch's condition is evaluated on: the if's arguments as they
\* are, an elif's arguments parsed
CondText(q, b) == IF b.kind = "if" THEN b.cond ELSE parse(q, b.cond).out

BranchHolds(q, b) == b.kind = "else" \/ condition_value(q, CondText(q, b))

\* the first branch whose condition is true, 0 when there is none
Selected(q, chain) ==
  IF \E k \in 1..Len(chain) : BranchHolds(q, chain[k])
  THEN CHOOSE k \in 1..Len(chain) :
         /\ BranchHolds(q, chain[k])
         /\ \A m \in 1..(k - 1) : ~BranchHolds(q, chain[m])
  ELSE 0

\* C3: blck_if evaluates the conditions left to right (an elif's arguments
\* parsed first), returns the parse of the body of the first branch that
\* holds and of no other, evaluates nothing after it, and returns "" when no
\* branch holds
C3_IfChain ==
  (op.name = "if" /\ op.chain # <<>>) =>
    LET chain == op.chain
        sel == Selected(pre, chain)
        last == IF sel = 0 THEN Len(chain) ELSE sel
        reached == SelectSeq(Upto(last), LAMBDA k : chain[k].kind # "else")
        elifs == SelectSeq(Upto(last), LAMBDA k : chain[k].kind = "elif")
        body == IF sel = 0 THEN Ret(pre, <<>>) ELSE parse(pre, chain[sel].body)
    IN /\ ~post.raised
       /\ result = body.out
       /\ NewCalls = [n \in 1..Len(elifs) |-> chain[elifs[n]].cond]
                       \o SubSeq(body.p.calls, Len(pre.calls) + 1, Len(body.p.calls))
       /\ NewEvals = [n \in 1..Len(reached) |-> CondText(pre, chain[reached[n]])]
                       \o SubSeq(body.p.evals, Len(pre.evals) + 1, Len(body.p.evals))
       /\ \A k \in 1..Len(chain) : k # sel => Count(NewCalls, chain[k].body) = 0

C3_Witness ==
  /\ op.name = "if" /\ Len(op.chain) = 3
  /\ op.chain[1].body = NestedIf
  /\ op.chain[2].cond = <<" ">> \o Dir("t", <<>>)
  /\ Selected(pre, op.chain) = 3
  /\ result = <<"c">>
  /\ Len(NewEvals) = 3

FirstSibling(us) ==
  LET ks == {k \in 1..Len(us) : us[k].kind \in {"elif", "else"} /\ DepthBefore(us, k) = 0}
  IN IF ks = {} THEN 0 ELSE CHOOSE k \in ks : \A m \in ks : k <= m

Offset(us, k) == Len(Render(SubSeq(us, 1, k - 1)))

\* C10: find_elifs_and_else returns the first elif or else at depth 0 of the
\* body (where it begins and ends, and the arguments of an elif), never one
\* of a nested if, and (-1, -1, None) when the body has none at depth 0
C10_DepthZeroSibling ==
  edone =>
    LET k == FirstSibling(eunits) IN
    /\ ~eresult.p.raised
    /\ IF k = 0
       THEN eresult.begin = 0 - 1 /\ eresult.end = 0 - 1 /\ eresult.isnone
       ELSE /\ eresult.begin = Offset(eunits, k)
            /\ eresult.end = Offset(eunits, k + 1)
            /\ eresult.isnone = (eunits[k].kind = "else")
            /\ eunits[k].kind = "elif" => eresult.arg = eunits[k].cond

C10_Witness ==
  /\ edone
  /\ FirstSibling(eunits) = 4
  /\ eunits[2].kind = "else"
  /\ eunits[4].kind = "elif"
  /\ eresult.begin = Offset(eunits, 4)
  /\ eresult.arg = <<" ">> \o Dir("t", <<>>)

\* C9: once process_defines has gone through the list, every define of the
\* list has its command, named by the text before the first "=", and calling
\* the command returns the value of that define
C9_EachDefineOwnValue ==
  (di = Len(defines) /\ ~dexit) =>
    \A n \in 1..Len(defines) :
      /\ define_split(defines[n]).name \in DOMAIN dcommands
      /\ call_define(dcommands, value_cell, define_split(defines[n]).name)
           = define_split(defines[n]).value

====
